---- MODULE Spec2Model ----
(***************************************************************************)
(* State-machine model of the Klipper sound controller                     *)
(* (src/extras/sound_system.py, class SoundSystem).                        *)
(*                                                                         *)
(* Command handlers and reactor callbacks run on the single reactor        *)
(* thread: each is one action.  The bodies of _play_sound_thread and       *)
(* _start_stream_thread run on their own threads: each statement that      *)
(* reads or writes shared state, or acts on a process, is one action, so   *)
(* that they interleave with the reactor and with each other.  The         *)
(* external player processes (aplay, mpv) exit by environment actions.     *)
(***************************************************************************)
EXTENDS Integers, Sequences, FiniteSets, TLC

\* ------------------------------------------------------------------ bounds
\* PLAY_SOUND commands issued in one behaviour.
MaxPlayCmds == 2
\* STREAM_RADIO commands issued in one behaviour.
MaxToggles == 4
\* The clock advances in steps of TickStep seconds, up to MaxTime.
TickStep == 10
MaxTime == 70

\* ------------------------------------------------------------------- state
VARIABLES
    aplay_path,      \* TRUE iff `which aplay` found the binary (else None)
    amixer_path,     \* TRUE iff `which amixer` found the binary
    mpv_path         \* TRUE iff `which mpv` found the binary

varsCfg == <<aplay_path, amixer_path, mpv_path>>

VARIABLES
    host_response    \* the last command the host found no handler for, and its answer

varsHost == <<host_response>>

VARIABLES
    sound_dir,       \* the names under sound_directory that _verify_sound_file accepts
    resolved,        \* the last call of _find_sound_file: its argument and its result
    wav_file,        \* a file handed to the verifiers: its kind and its bytes
    verdict          \* the last call of a verifier: which one, and what it returned

varsDir == <<sound_dir, resolved, wav_file, verdict>>

VARIABLES
    sound_playing,   \* self._sound_playing
    plays            \* one record per PLAY_SOUND command, in the order issued

varsPlay == <<sound_playing, plays>>

VARIABLES
    stream_process,          \* self._stream_process: None, or the Popen handle
    current_stream_index,    \* self.current_stream_index
    last_stream_stop_time,   \* self.last_stream_stop_time: None, or a clock value
    now,                     \* reactor.monotonic()
    streams,                 \* one record per start_stream callback registered
    ntoggles,                \* STREAM_RADIO commands handled so far
    last_response              \* the response to the last STREAM_RADIO

varsStream == <<stream_process, current_stream_index, last_stream_stop_time, now,
                streams, ntoggles, last_response>>

VARIABLES
    min_volume,              \* self.min_volume (config)
    max_volume,              \* self.max_volume (config)
    current_volume,          \* self._current_volume: None, or a percentage
    volume_before,           \* _current_volume when _set_volume was last entered
    volume_target,           \* the argument of the last _set_volume
    mixer_arg,               \* the percentage of the last `amixer sset PCM`
    mixer_outcome,           \* how that call ended
    volume_response          \* the response to the last VOLUME_UP / VOLUME_DOWN

varsVolume == <<min_volume, max_volume, current_volume, volume_before,
                volume_target, mixer_arg, mixer_outcome, volume_response>>

\* ------------------------------------------------------------ configuration
\* None, for the stream handle (handles are the positive positions in streams),
\* for the stop time (clock values are >= 0) and for the volume (percentages
\* are >= 0).
None == 0 - 1

\* __init__ returns before register_command when aplay or amixer is missing.
registered == aplay_path /\ amixer_path

\* Lines 65-74: the commands __init__ registers (SOUND_LIST is not modelled).
Commands == {"PLAY_SOUND", "VOLUME_UP", "VOLUME_DOWN", "STREAM_RADIO"}

\* The binary a command's component needs: lines 218, 82 and 106, 346.
BinaryFound(c) ==
    CASE c = "PLAY_SOUND" -> aplay_path
      [] c \in {"VOLUME_UP", "VOLUME_DOWN"} -> amixer_path
      [] c = "STREAM_RADIO" -> mpv_path

\* A command is issued after __init__ returned at line 36 or 39: it was never
\* registered, no handler of SoundSystem runs, and the host's dispatcher
\* answers that it does not know the command.
unregistered_command(c) ==
    /\ ~registered
    /\ host_response' = [cmd |-> c, resp |-> "unknown command"]
    /\ UNCHANGED <<varsCfg, varsDir, varsPlay, varsStream, varsVolume>>

\* ---------------------------------------------------------- sound catalog

\* A file name is the sequence of its dot-separated components:
\* <<"a">> is "a", <<"a", "wav">> is "a.wav".  <<>> is the empty string.
NoPath == <<"?">>

\* Path.with_suffix('.wav'): the last suffix is replaced, or '.wav' is added
\* to a name that has none.
with_suffix_wav(name) ==
    IF Len(name) > 1 THEN SubSeq(name, 1, Len(name) - 1) \o <<"wav">>
    ELSE name \o <<"wav">>

verify_sound_file(path) == path \in sound_dir

find_sound_file_unverified(sound_name) ==
    IF verify_sound_file(sound_name) THEN sound_name
    ELSE with_suffix_wav(sound_name)

find_sound_file(sound_name) ==
    IF verify_sound_file(sound_name) THEN sound_name
    ELSE IF verify_sound_file(with_suffix_wav(sound_name))
         THEN with_suffix_wav(sound_name)
         ELSE NoPath

\* The SOUND parameters the commands of the model carry.
SoundArgs == {<<"a">>, <<"zz">>, <<>>}
DefaultDir == {<<"a", "wav">>, <<"b", "wav">>}

\* The names a sound directory may hold as verified files, and the names
\* _find_sound_file is asked for.  A name is the sequence of its dot-separated
\* parts: <<"a", "mp3", "wav">> is 'a.mp3.wav'.
ResolvePaths ==
    {<<"a">>, <<"a", "wav">>, <<"a", "mp3">>, <<"a", "mp3", "wav">>, <<"b", "wav">>}
ResolveSpecs == {<<"a">>, <<"a", "wav">>, <<"a", "mp3">>, <<"b">>}

\* One call of _find_sound_file, lines 171-184.
resolve(sound_name) ==
    /\ resolved' = [arg |-> sound_name, path |-> find_sound_file(sound_name)]
    /\ UNCHANGED <<sound_dir, wav_file, verdict>>
    /\ UNCHANGED <<varsCfg, varsHost, varsPlay, varsStream, varsVolume>>

NextResolve == \E sound_name \in ResolveSpecs : resolve(sound_name)

\* --------------------------------------------------------- WAV verification

\* A file's bytes are modelled as 4-byte words; "WA" is a word cut short by the
\* end of the file, so it can only come last.
HeaderWords == {"RIFF", "WAVE", "size", "WA"}
MaxWords == 3
Contents ==
    {c \in UNION {[1..n -> HeaderWords] : n \in 0..MaxWords} :
        \A k \in 1..(Len(c) - 1) : c[k] # "WA"}

\* What a path may name: nothing, a directory, or a regular file that open()
\* may refuse.
WavFiles ==
    {[kind |-> k, readable |-> TRUE, bytes |-> <<>>] : k \in {"missing", "dir"}}
    \cup {[kind |-> "file", readable |-> r, bytes |-> c] :
              r \in BOOLEAN, c \in Contents}
DefaultFile == [kind |-> "file", readable |-> TRUE, bytes |-> <<"RIFF", "size", "WAVE">>]

\* f.read(n) for n a multiple of 4: the first n / 4 words of the file.
read(f, nwords) == SubSeq(f.bytes, 1, IF Len(f.bytes) < nwords THEN Len(f.bytes) ELSE nwords)

\* SoundSystem._verify_sound_file, lines 156-169: is_file, then read(12),
\* header.startswith(b'RIFF') and header[8:12] == b'WAVE'; False on any exception.
SoundSystem_verify_sound_file(f) ==
    IF f.kind # "file" THEN FALSE
    ELSE IF ~f.readable THEN FALSE
    ELSE LET header == read(f, 3)
         IN  /\ Len(header) >= 1
             /\ header[1] = "RIFF"
             /\ Len(header) >= 3
             /\ header[3] = "WAVE"

\* SoundSystemService._verify_sound_file, sound_system_service.py lines 62-72:
\* os.path.isfile, then read(4), header == b'RIFF'; False on any exception.
SoundSystemService_verify_sound_file(f) ==
    IF f.kind # "file" THEN FALSE
    ELSE IF ~f.readable THEN FALSE
    ELSE LET header == read(f, 1)
         IN  header = <<"RIFF">>

VerifyFrame ==
    /\ UNCHANGED <<sound_dir, resolved, wav_file>>
    /\ UNCHANGED <<varsCfg, varsHost, varsPlay, varsStream, varsVolume>>

\* The controller verifies the file (from _find_sound_file or _scan_sounds).
controller_verifies ==
    /\ VerifyFrame
    /\ verdict' = [by |-> "controller", ok |-> SoundSystem_verify_sound_file(wav_file)]

\* The HTTP service verifies the file (from its _scan_sounds).
service_verifies ==
    /\ VerifyFrame
    /\ verdict' = [by |-> "service", ok |-> SoundSystemService_verify_sound_file(wav_file)]

NextVerify == controller_verifies \/ service_verifies

\* ---------------------------------------------------------------- playback

\* The aplay processes that are running: what psutil.process_iter finds.
RunningAplay == {i \in 1..Len(plays) : plays[i].proc = "running"}

\* The command's player is still to come or still running.
PlayerPending(i) ==
    \/ plays[i].pc \in {"queued", "start", "popen"}
    \/ plays[i].pc = "communicate" /\ plays[i].proc = "running"

\* What no step of the playback component touches.
PlayFrame == UNCHANGED <<varsCfg, varsHost, varsDir, varsStream, varsVolume>>

\* The record of a command: its parameters, its response, where its callback
\* or thread stands (pc) and its aplay process (proc).  afterPending and
\* victims remember the state the handler ran in: whether the command before
\* it was accepted with its player still pending, and, for a forced command,
\* the aplay processes that were running.
PlayRecord(arg, sound, force, resp, pc) ==
    [arg |-> arg, sound |-> sound, force |-> force, resp |-> resp, pc |-> pc,
     proc |-> "none",
     afterPending |-> Len(plays) > 0 /\ PlayerPending(Len(plays)),
     victims |-> IF force THEN RunningAplay ELSE {}]

\* The flag after the forced sweep of lines 239-248: reset unless the sweep raised.
FlagAfterSweep(raised) == IF raised THEN sound_playing ELSE FALSE

\* cmd_PLAY_SOUND, lines 216-261.  killed, raised: the outcome of the sweep
\* over the aplay processes (os.kill may raise part-way through the loop).
cmd_PLAY_SOUND(sound_name, force_now, killed, raised) ==
    /\ PlayFrame
    /\ registered
    /\ Len(plays) < MaxPlayCmds
    /\ IF ~aplay_path
       THEN /\ plays' = Append(plays, PlayRecord(sound_name, NoPath, force_now, "unavailable", "rejected"))
            /\ UNCHANGED sound_playing
       ELSE IF sound_playing /\ ~force_now
       THEN /\ plays' = Append(plays, PlayRecord(sound_name, NoPath, force_now, "busy", "rejected"))
            /\ UNCHANGED sound_playing
       ELSE IF sound_name = <<>>
       THEN /\ plays' = Append(plays, PlayRecord(sound_name, NoPath, force_now, "missing", "rejected"))
            /\ UNCHANGED sound_playing
       ELSE IF find_sound_file(sound_name) = NoPath
       THEN /\ plays' = Append(plays, PlayRecord(sound_name, NoPath, force_now, "notfound", "rejected"))
            /\ UNCHANGED sound_playing
       ELSE IF force_now /\ sound_playing
       THEN /\ killed \subseteq RunningAplay
            /\ (~raised => killed = RunningAplay)
            /\ plays' = Append(
                 [i \in 1..Len(plays) |->
                    IF i \in killed THEN [plays[i] EXCEPT !.proc = "term"] ELSE plays[i]],
                 PlayRecord(sound_name, find_sound_file(sound_name), force_now, "none", "queued"))
            /\ sound_playing' = FlagAfterSweep(raised)
       ELSE /\ plays' = Append(plays, PlayRecord(sound_name, find_sound_file(sound_name), force_now, "none", "queued"))
            /\ UNCHANGED sound_playing

\* The reactor runs its callbacks in the order they were registered.
NextCallback(i) ==
    /\ i \in 1..Len(plays)
    /\ plays[i].pc = "queued"
    /\ \A j \in 1..(i - 1) : plays[j].pc # "queued"

\* The double check of line 253.
MayStart(i) == ~sound_playing \/ plays[i].force

\* start_playback, lines 251-258.
start_playback(i) ==
    /\ PlayFrame
    /\ NextCallback(i)
    /\ IF MayStart(i)
       THEN plays' = [plays EXCEPT ![i].pc = "start", ![i].resp = "playing"]
       ELSE plays' = [plays EXCEPT ![i].pc = "dropped"]
    /\ UNCHANGED sound_playing

\* _play_sound_thread, line 190.
thread_set_flag(i) ==
    /\ PlayFrame
    /\ i \in 1..Len(plays)
    /\ plays[i].pc = "start"
    /\ sound_playing' = TRUE
    /\ plays' = [plays EXCEPT ![i].pc = "popen"]

\* _play_sound_thread, lines 192-196: Popen spawns aplay, or raises.
thread_popen(i, ok) ==
    /\ PlayFrame
    /\ i \in 1..Len(plays)
    /\ plays[i].pc = "popen"
    /\ plays' = IF ok THEN [plays EXCEPT ![i].pc = "communicate", ![i].proc = "running"]
                ELSE [plays EXCEPT ![i].pc = "finally"]
    /\ UNCHANGED sound_playing

\* The aplay process ends by itself, with exit code 0 or not.
aplay_exit(i, rc) ==
    /\ PlayFrame
    /\ i \in 1..Len(plays)
    /\ plays[i].proc = "running"
    /\ plays' = [plays EXCEPT ![i].proc = rc]
    /\ UNCHANGED sound_playing

\* _play_sound_thread, lines 199-204: communicate returns once the process has ended.
thread_communicate(i) ==
    /\ PlayFrame
    /\ i \in 1..Len(plays)
    /\ plays[i].pc = "communicate"
    /\ plays[i].proc # "running"
    /\ plays' = [plays EXCEPT ![i].pc = "finally"]
    /\ UNCHANGED sound_playing

\* A slip in lines 206-209: the timeout is logged, the process is left alone.
thread_timeout_no_kill(i) ==
    /\ PlayFrame
    /\ i \in 1..Len(plays)
    /\ plays[i].pc = "communicate"
    /\ plays[i].proc = "running"
    /\ plays' = [plays EXCEPT ![i].pc = "finally"]
    /\ UNCHANGED sound_playing

\* _play_sound_thread, lines 206-209: the 30 s timeout expires with the process
\* still running; it is killed and reaped.
thread_timeout(i) ==
    /\ PlayFrame
    /\ i \in 1..Len(plays)
    /\ plays[i].pc = "communicate"
    /\ plays[i].proc = "running"
    /\ plays' = [plays EXCEPT ![i].pc = "finally", ![i].proc = "killed"]
    /\ UNCHANGED sound_playing

\* _play_sound_thread, lines 212-214.
thread_finally(i) ==
    /\ PlayFrame
    /\ i \in 1..Len(plays)
    /\ plays[i].pc = "finally"
    /\ sound_playing' = FALSE
    /\ plays' = [plays EXCEPT ![i].pc = "done"]

PlayIds == 1..MaxPlayCmds

NextPlay ==
    \/ \E s \in SoundArgs, f \in BOOLEAN, k \in SUBSET PlayIds, r \in BOOLEAN :
          cmd_PLAY_SOUND(s, f, k, r)
    \/ \E i \in PlayIds : start_playback(i)
    \/ \E i \in PlayIds : thread_set_flag(i)
    \/ \E i \in PlayIds, ok \in BOOLEAN : thread_popen(i, ok)
    \/ \E i \in PlayIds, rc \in {"ok", "fail"} : aplay_exit(i, rc)
    \/ \E i \in PlayIds : thread_communicate(i)
    \/ \E i \in PlayIds : thread_timeout(i)
    \/ \E i \in PlayIds : thread_finally(i)
    \/ \E c \in Commands : unregistered_command(c)

\* ------------------------------------------------------------------ stream

\* Lines 49-55: the default radio_streams.
stream_urls == <<"mellow-320", "rock-320", "eclectic-320">>

\* Line 62: the default of stream_switch_timeout, in seconds.
stream_switch_timeout == 60

\* The mpv processes that are running: what psutil.process_iter finds.
RunningMpv == {w \in 1..Len(streams) : streams[w].proc = "running"}

\* A process that has received SIGTERM, or was swept, has ended.
Terminated(procs, ws) ==
    [w \in 1..Len(procs) |->
        IF w \in ws /\ procs[w].proc = "running"
        THEN [procs[w] EXCEPT !.proc = "exited"] ELSE procs[w]]

\* A slip in line 367: the boundary of the timeout excluded.
NextIndex_strict(index, stop_time, current_time) ==
    IF stop_time # None /\ current_time - stop_time < stream_switch_timeout
    THEN (index + 1) % Len(stream_urls)
    ELSE index

\* Lines 365-372: the index the toggle plays.
NextIndex(index, stop_time, current_time) ==
    IF stop_time # None /\ current_time - stop_time <= stream_switch_timeout
    THEN (index + 1) % Len(stream_urls)
    ELSE index

\* What no step of the stream component touches.
StreamFrame == UNCHANGED <<varsCfg, varsHost, varsDir, varsPlay, varsVolume>>

\* cmd_STREAM_RADIO, lines 344-385.  stop_raises: terminate() or wait() raises
\* in the try block of lines 353-360.
cmd_STREAM_RADIO(stop_raises) ==
    /\ StreamFrame
    /\ registered
    /\ ntoggles < MaxToggles
    /\ ntoggles' = ntoggles + 1
    /\ UNCHANGED now
    /\ IF ~mpv_path
       THEN /\ last_response' = "unavailable"
            /\ UNCHANGED <<stream_process, current_stream_index,
                           last_stream_stop_time, streams>>
       ELSE IF stream_process # None /\ ~stop_raises
       THEN /\ streams' = Terminated(streams, {stream_process} \cup RunningMpv)
            /\ stream_process' = None
            /\ last_stream_stop_time' = now
            /\ last_response' = "Stopped"
            /\ UNCHANGED current_stream_index
       ELSE /\ stream_process' = None
            /\ current_stream_index' =
                 NextIndex(current_stream_index, last_stream_stop_time, now)
            /\ streams' = Append(streams,
                 [url |-> stream_urls[current_stream_index' + 1],
                  announced |-> stream_urls[current_stream_index' + 1],
                  spawned |-> "none", index_at_spawn |-> None,
                  pc |-> "queued", proc |-> "none"])
            /\ last_response' = "Started"
            /\ UNCHANGED last_stream_stop_time

\* The reactor runs its callbacks in the order they were registered.
NextStreamCallback(w) ==
    /\ w \in 1..Len(streams)
    /\ streams[w].pc = "queued"
    /\ \A v \in 1..(w - 1) : streams[v].pc # "queued"

\* start_stream, lines 377-381: the thread is started.
start_stream(w) ==
    /\ StreamFrame
    /\ NextStreamCallback(w)
    /\ streams' = [streams EXCEPT ![w].pc = "terminate"]
    /\ UNCHANGED <<stream_process, current_stream_index, last_stream_stop_time,
                   now, ntoggles, last_response>>

\* _start_stream_thread, lines 326-328 (and 340-342 when terminate raises).
stream_terminate(w, raises) ==
    /\ StreamFrame
    /\ w \in 1..Len(streams)
    /\ streams[w].pc = "terminate"
    /\ IF stream_process = None
       THEN /\ streams' = [streams EXCEPT ![w].pc = "sweep"]
            /\ UNCHANGED stream_process
       ELSE IF raises
       THEN /\ streams' = [streams EXCEPT ![w].pc = "done"]
            /\ stream_process' = None
       ELSE /\ streams' = [Terminated(streams, {stream_process}) EXCEPT ![w].pc = "sweep"]
            /\ UNCHANGED stream_process
    /\ UNCHANGED <<current_stream_index, last_stream_stop_time, now, ntoggles,
                   last_response>>

\* _start_stream_thread, line 330: _kill_existing_stream, lines 312-320.
stream_sweep(w) ==
    /\ StreamFrame
    /\ w \in 1..Len(streams)
    /\ streams[w].pc = "sweep"
    /\ streams' = [Terminated(streams, RunningMpv) EXCEPT ![w].pc = "popen"]
    /\ UNCHANGED <<stream_process, current_stream_index, last_stream_stop_time,
                   now, ntoggles, last_response>>

\* A slip in lines 375-379: the worker looks the URL up when it runs.
SpawnUrl_late(w) == stream_urls[current_stream_index + 1]

\* The URL the worker of toggle w hands to mpv (line 334): the argument the
\* thread was created with (line 379), the handler's local url of line 375.
SpawnUrl(w) == streams[w].url

\* _start_stream_thread, lines 333-337: Popen spawns mpv, or raises (340-342).
\* index_at_spawn remembers current_stream_index as it is when mpv is spawned.
stream_popen(w, ok) ==
    /\ StreamFrame
    /\ w \in 1..Len(streams)
    /\ streams[w].pc = "popen"
    /\ IF ok
       THEN /\ streams' = [streams EXCEPT ![w].pc = "assign", ![w].proc = "running",
                                          ![w].spawned = SpawnUrl(w),
                                          ![w].index_at_spawn = current_stream_index]
            /\ UNCHANGED stream_process
       ELSE /\ streams' = [streams EXCEPT ![w].pc = "done"]
            /\ stream_process' = None
    /\ UNCHANGED <<current_stream_index, last_stream_stop_time, now, ntoggles,
                   last_response>>

\* _start_stream_thread, line 333: the handle Popen returned is stored.
stream_assign(w) ==
    /\ StreamFrame
    /\ w \in 1..Len(streams)
    /\ streams[w].pc = "assign"
    /\ stream_process' = w
    /\ streams' = [streams EXCEPT ![w].pc = "done"]
    /\ UNCHANGED <<current_stream_index, last_stream_stop_time, now, ntoggles,
                   last_response>>

\* The mpv process ends by itself (the stream ends, the network fails).
mpv_exit(w) ==
    /\ StreamFrame
    /\ w \in 1..Len(streams)
    /\ streams[w].proc = "running"
    /\ streams' = [streams EXCEPT ![w].proc = "exited"]
    /\ UNCHANGED <<stream_process, current_stream_index, last_stream_stop_time,
                   now, ntoggles, last_response>>

\* The monotonic clock advances.
Tick ==
    /\ StreamFrame
    /\ now + TickStep <= MaxTime
    /\ now' = now + TickStep
    /\ UNCHANGED <<stream_process, current_stream_index, last_stream_stop_time,
                   streams, ntoggles, last_response>>

StreamIds == 1..MaxToggles

NextStream ==
    \/ \E r \in BOOLEAN : cmd_STREAM_RADIO(r)
    \/ \E w \in StreamIds : start_stream(w)
    \/ \E w \in StreamIds, r \in BOOLEAN : stream_terminate(w, r)
    \/ \E w \in StreamIds : stream_sweep(w)
    \/ \E w \in StreamIds, ok \in BOOLEAN : stream_popen(w, ok)
    \/ \E w \in StreamIds : stream_assign(w)
    \/ \E w \in StreamIds : mpv_exit(w)
    \/ Tick
    \/ \E c \in Commands : unregistered_command(c)

\* ------------------------------------------------------------------ volume
\* Line 26: the default of volume_step.
volume_step == 5

\* Lines 97 and 100: the volume assumed when the mixer's answer is unusable.
DefaultVolume == 50

\* Lines 27-28: max_volume and min_volume are configured; the defaults and a
\* narrower range.
VolumeRanges == {<<0, 100>>, <<20, 80>>}

\* What `amixer sget PCM` may answer: a 'Mono:' line with a percentage, a
\* 'Mono:' line that does not parse, output without 'Mono:', a non-zero exit
\* code, or subprocess.run raises.
ParsedPercents == {0, 47, 100}
MixerQueries ==
    [kind : {"percent"}, value : ParsedPercents]
      \cup [kind : {"garbled", "nomono", "nonzero", "raise"}, value : {0}]

\* How `amixer sset PCM v%` may end.
MixerOutcomes == {"ok", "nonzero", "timeout", "raise"}

\* _init_volume_state, lines 79-100: the value of _current_volume afterwards.
init_volume_state(current, q) ==
    CASE q.kind = "percent" -> q.value
      [] q.kind = "garbled" -> DefaultVolume
      [] q.kind = "raise" -> DefaultVolume
      [] OTHER -> current

Min(a, b) == IF a < b THEN a ELSE b
Max(a, b) == IF a > b THEN a ELSE b

\* A slip in line 104: the lower bound forgotten.
Clamp_upper_only(volume) == Min(max_volume, volume)

\* Line 104.
Clamp(volume) == Max(min_volume, Min(max_volume, volume))

\* A slip in lines 110-111: the volume stored whatever the call returned.
VolumeAfterSet_speculative(current, volume, outcome) == volume

\* Lines 110-122: _current_volume after the mixer call.
VolumeAfterSet(current, volume, outcome) ==
    IF outcome = "ok" THEN volume ELSE current

\* What no step of the volume component touches.
VolumeFrame == UNCHANGED <<varsCfg, varsHost, varsDir, varsPlay, varsStream>>

\* The body cmd_VOLUME_UP (direction 1) and cmd_VOLUME_DOWN (direction -1)
\* share, with _set_volume, lines 102-122.  q: the mixer's answer if the
\* volume has to be initialised first; outcome: how the sset call ends.
volume_command(direction, q, outcome) ==
    /\ UNCHANGED <<min_volume, max_volume>>
    /\ LET current == IF current_volume = None
                      THEN init_volume_state(current_volume, q)
                      ELSE current_volume
           new_volume == current + direction * volume_step
       IN IF current = None
          THEN \* None + int raises TypeError before _set_volume is called
               /\ current_volume' = current
               /\ volume_response' = "TypeError"
               /\ mixer_outcome' = "none"
               /\ UNCHANGED <<volume_before, volume_target, mixer_arg>>
          ELSE /\ volume_before' = current
               /\ volume_target' = new_volume
               /\ mixer_arg' = Clamp(new_volume)
               /\ mixer_outcome' = outcome
               /\ current_volume' = VolumeAfterSet(current, Clamp(new_volume), outcome)
               /\ volume_response' = IF outcome = "ok" THEN "ok" ELSE "failed"

\* cmd_VOLUME_UP, lines 281-290.
cmd_VOLUME_UP(q, outcome) ==
    /\ VolumeFrame
    /\ registered
    /\ volume_command(1, q, outcome)

\* cmd_VOLUME_DOWN, lines 292-301.
cmd_VOLUME_DOWN(q, outcome) ==
    /\ VolumeFrame
    /\ registered
    /\ volume_command(0 - 1, q, outcome)

NextVolume ==
    \/ \E q \in MixerQueries, o \in MixerOutcomes : cmd_VOLUME_UP(q, o)
    \/ \E q \in MixerQueries, o \in MixerOutcomes : cmd_VOLUME_DOWN(q, o)
    \/ \E c \in Commands : unregistered_command(c)

\* ------------------------------------------------------------ specifications
vars == <<varsCfg, varsHost, varsDir, varsPlay, varsStream, varsVolume>>

\* The state after __init__, for each outcome of the three `which` lookups;
\* the sound directory and the file under verification are left open.
InitController ==
    /\ aplay_path \in BOOLEAN
    /\ amixer_path \in BOOLEAN
    /\ mpv_path \in BOOLEAN
    /\ host_response = [cmd |-> "none", resp |-> "none"]
    /\ resolved = [arg |-> <<>>, path |-> NoPath]
    /\ verdict = [by |-> "none", ok |-> FALSE]
    /\ sound_playing = FALSE
    /\ plays = <<>>
    /\ stream_process = None
    /\ current_stream_index = 0
    /\ last_stream_stop_time = None
    /\ now = 0
    /\ streams = <<>>
    /\ ntoggles = 0
    /\ last_response = "none"
    /\ \E range \in VolumeRanges : min_volume = range[1] /\ max_volume = range[2]
    /\ current_volume \in
          IF registered THEN {init_volume_state(None, q) : q \in MixerQueries}
          ELSE {None}
    /\ volume_before = None
    /\ volume_target = None
    /\ mixer_arg = None
    /\ mixer_outcome = "none"
    /\ volume_response = "none"

\* The state after __init__ over the default sound directory.
Init ==
    /\ InitController
    /\ sound_dir = DefaultDir
    /\ wav_file = DefaultFile

\* Init with the default volume range and a mixer whose first answer did not
\* parse: the one volume configuration the playback and stream specifications
\* start from (no step of theirs reads the volume).
InitDefaultMixer ==
    /\ Init
    /\ min_volume = 0
    /\ max_volume = 100
    /\ current_volume = IF registered THEN DefaultVolume ELSE None

SpecStream == InitDefaultMixer /\ [][NextStream]_vars

SpecPlay == InitDefaultMixer /\ [][NextPlay]_vars

\* One statement of the playback worker of command i, lines 186-214.
WorkerStep(i) ==
    \/ thread_set_flag(i)
    \/ \E ok \in BOOLEAN : thread_popen(i, ok)
    \/ thread_communicate(i)
    \/ thread_timeout(i)
    \/ thread_finally(i)

\* SpecPlay under fair scheduling: the reactor runs every callback it was
\* given (line 261), the operating system runs every started thread, and a
\* thread waiting in communicate(timeout=30) is woken by the exit of aplay or
\* by the timeout.  Nothing obliges a command to be issued or aplay to exit.
SpecPlayFair ==
    /\ InitDefaultMixer
    /\ [][NextPlay]_vars
    /\ WF_vars(\E i \in PlayIds : start_playback(i))
    /\ \A i \in PlayIds : WF_vars(WorkerStep(i))

SpecVolume == Init /\ [][NextVolume]_vars

\* Every content of the sound directory, under a controller whose binaries
\* were all found.
InitResolve ==
    /\ InitController
    /\ aplay_path /\ amixer_path /\ mpv_path
    /\ min_volume = 0
    /\ max_volume = 100
    /\ current_volume = DefaultVolume
    /\ sound_dir \in SUBSET ResolvePaths
    /\ wav_file = DefaultFile

SpecResolve == InitResolve /\ [][NextResolve]_vars

\* Every file a verifier may be handed.
InitVerify ==
    /\ InitController
    /\ aplay_path /\ amixer_path /\ mpv_path
    /\ min_volume = 0
    /\ max_volume = 100
    /\ current_volume = DefaultVolume
    /\ sound_dir = DefaultDir
    /\ wav_file \in WavFiles

SpecVerify == InitVerify /\ [][NextVerify]_vars

Next == NextPlay \/ NextStream \/ NextVolume \/ NextResolve \/ NextVerify

Spec == Init /\ [][Next]_vars

\* ------------------------------------------------------------------ claims

\* C1: a PLAY_SOUND without NOW whose sound resolves, issued right after an
\* accepted PLAY_SOUND whose player has not exited yet, is answered busy, gets
\* no callback, thread or player of its own, and the earlier sound's player is
\* not signalled.
C1_BusyWhilePending ==
    \A j \in 1..Len(plays) :
        (plays[j].afterPending /\ ~plays[j].force
            /\ find_sound_file(plays[j].arg) # NoPath)
        => /\ plays[j].resp = "busy"
           /\ plays[j].pc = "rejected"
           /\ plays[j].proc = "none"
           /\ plays[j - 1].proc # "term"

\* C2: after PLAY_SOUND NOW=1 was handled while a player was running, every
\* player that was running is terminated, and sound_playing reads true for as
\* long as the forced sound's player is pending or running.
C2_ForcedFlagStaysTrue ==
    \A j \in 1..Len(plays) :
        (plays[j].force /\ plays[j].victims # {} /\ PlayerPending(j))
        => /\ sound_playing
           /\ \A a \in plays[j].victims : plays[a].proc # "running"

\* C3: at most one aplay process spawned by the controller runs at any time.
C3_AtMostOnePlayer == Cardinality(RunningAplay) <= 1

\* A STREAM_RADIO handler has just run with mpv available.
ToggleStep == ntoggles' = ntoggles + 1 /\ mpv_path

\* C4: at most one mpv process runs at any time.
C4_AtMostOneStreamPlayer == Cardinality(RunningMpv) <= 1

\* C5: a toggle handled with no tracked stream advances current_stream_index
\* modulo the number of streams when the last stop is at most
\* stream_switch_timeout old (boundary included), keeps it when the last stop
\* is older, and keeps it at 0 when there was no stop yet.
C5_IndexDecision ==
    [][(ToggleStep /\ stream_process = None) =>
        /\ (last_stream_stop_time # None
              /\ now - last_stream_stop_time <= stream_switch_timeout)
           => current_stream_index' = (current_stream_index + 1) % Len(stream_urls)
        /\ (last_stream_stop_time # None
              /\ now - last_stream_stop_time > stream_switch_timeout)
           => current_stream_index' = current_stream_index
        /\ last_stream_stop_time = None
           => current_stream_index = 0 /\ current_stream_index' = 0
        /\ last_response' = "Started"
        /\ streams'[Len(streams')].url = stream_urls[current_stream_index' + 1]
      ]_vars

\* The stream was stopped at t = 0 and restarted by t = 10: index 1 plays.
C5_Witness ==
    /\ last_response = "Started"
    /\ last_stream_stop_time = 0
    /\ now = 10
    /\ current_stream_index = 1
    /\ streams[Len(streams)].url = "rock-320"

\* C6: a toggle handled with a tracked stream terminates it, clears the
\* handle, records the stop time, answers Stopped, registers no start callback
\* and leaves current_stream_index alone.
C6_StopBranch ==
    [][(ToggleStep /\ stream_process # None) =>
        /\ last_response' = "Stopped"
        /\ stream_process' = None
        /\ last_stream_stop_time' = now
        /\ Len(streams') = Len(streams)
        /\ current_stream_index' = current_stream_index
        /\ streams'[stream_process].proc # "running"
      ]_vars

\* C7: the tracked handle is set exactly when an mpv process is running.
C7_HandleIffPlaying == (stream_process # None) <=> (RunningMpv # {})

\* C8: current_stream_index changes only in a toggle whose preceding toggle
\* answered Stopped at most stream_switch_timeout earlier (a Stopped toggle
\* stores its time in last_stream_stop_time, line 358).
C8_AdvanceOnlyAfterStop ==
    [][current_stream_index' # current_stream_index =>
        /\ ToggleStep
        /\ last_response = "Stopped"
        /\ now - last_stream_stop_time <= stream_switch_timeout
      ]_vars

\* C9: every mixer call carries the target clamped to [min_volume,
\* max_volume]; after a successful call the in-memory volume is that value, so
\* stepping up at max_volume or down at min_volume leaves it at the bound.
C9_ClampedBeforeCall ==
    volume_response \in {"ok", "failed"} =>
        /\ min_volume <= mixer_arg /\ mixer_arg <= max_volume
        /\ mixer_arg = (IF volume_target < min_volume THEN min_volume
                        ELSE IF volume_target > max_volume THEN max_volume
                        ELSE volume_target)
        /\ volume_response = "ok" => current_volume = mixer_arg
        /\ (volume_response = "ok" /\ volume_before = max_volume
              /\ volume_target > volume_before) => current_volume = max_volume
        /\ (volume_response = "ok" /\ volume_before = min_volume
              /\ volume_target < volume_before) => current_volume = min_volume

\* VOLUME_DOWN at min_volume succeeded: the target was below the range.
C9_Witness ==
    /\ volume_response = "ok"
    /\ volume_before = min_volume
    /\ volume_target < min_volume
    /\ current_volume = min_volume

\* C10: when the mixer call times out, exits non-zero or raises, the in-memory
\* volume is what it was when _set_volume was entered and the command answers
\* with an error.
C10_FailedCallKeepsVolume ==
    mixer_outcome \in {"nonzero", "timeout", "raise"} =>
        /\ current_volume = volume_before
        /\ volume_response = "failed"

\* The call for a different volume timed out.
C10_Witness ==
    /\ mixer_outcome = "timeout"
    /\ volume_response = "failed"
    /\ mixer_arg # volume_before
    /\ current_volume = volume_before

\* C11: whatever the mixer answers to the query, the volume is set (to the
\* parsed percentage or to 50), so no VOLUME_UP / VOLUME_DOWN computes from
\* None and raises.
C11_InitAlwaysSetsVolume ==
    /\ registered => current_volume # None
    /\ volume_response # "TypeError"

\* C12: once initialised, the in-memory volume lies in [min_volume, max_volume].
C12_VolumeInRange ==
    current_volume # None =>
        min_volume <= current_volume /\ current_volume <= max_volume

\* C13: with its binary missing at startup, a component's command is answered
\* 'unavailable' every time, makes no external call and changes no state.
C13_MissingBinaryUnavailable ==
    /\ \A c \in Commands :
          (host_response.cmd = c /\ ~BinaryFound(c))
          => host_response.resp = "unavailable"
    /\ ~aplay_path =>
          /\ \A i \in 1..Len(plays) :
                plays[i].resp = "unavailable" /\ plays[i].pc = "rejected"
          /\ ~sound_playing
    /\ ~amixer_path =>
          /\ volume_response \in {"none", "unavailable"}
          /\ mixer_arg = None
    /\ ~mpv_path =>
          /\ last_response \in {"none", "unavailable"}
          /\ streams = <<>>
          /\ stream_process = None

\* Exactly one of aplay, amixer, mpv was not found.
OneBinaryMissing ==
    Cardinality({b \in {"aplay", "amixer", "mpv"} :
        \/ b = "aplay" /\ ~aplay_path
        \/ b = "amixer" /\ ~amixer_path
        \/ b = "mpv" /\ ~mpv_path}) = 1

\* C14: with exactly one binary missing, the commands of the components that
\* do not need it are registered: the host finds their handlers.
C14_OtherComponentsWork ==
    \A c \in Commands :
        (OneBinaryMissing /\ BinaryFound(c)) => host_response.cmd # c

\* A step that handles one PLAY_SOUND: the handler appends the command's record.
PlayCommandStep == Len(plays') = Len(plays) + 1

\* The command of the step carries a SOUND of which no candidate is verified.
UnresolvedCommand ==
    LET r == plays'[Len(plays')]
    IN  /\ r.arg # <<>>
        /\ ~verify_sound_file(r.arg)
        /\ ~verify_sound_file(with_suffix_wav(r.arg))

\* The command of the step is answered not-found and nothing else happens.
OnlyNotFound ==
    LET r == plays'[Len(plays')]
    IN  /\ r.resp = "notfound"
        /\ r.pc = "rejected"
        /\ r.proc = "none"
        /\ SubSeq(plays', 1, Len(plays)) = plays
        /\ sound_playing' = sound_playing

C16_StreamFailuresSurfaced ==
    [][/\ (ToggleStep /\ stream_process # None) => last_response' # "Started"
       /\ \A w \in 1..Len(streams) :
             (streams[w].pc # "done" /\ streams'[w].pc = "done")
             => streams'[w].proc # "none"]_vars

\* C17: for every spec and every directory content, the result is the first
\* verified candidate of: the spec verbatim, then the spec with '.wav'
\* appended (tried only when the spec does not already end in '.wav');
\* not-found when neither is verified.
C17_ResolveMatchesReference ==
    LET spec == resolved.arg
        endsInWav == Len(spec) > 1 /\ spec[Len(spec)] = "wav"
        appended == spec \o <<"wav">>
    IN  spec # <<>> =>
            resolved.path =
                IF spec \in sound_dir THEN spec
                ELSE IF ~endsInWav /\ appended \in sound_dir THEN appended
                ELSE NoPath

\* C18: each verifier of the repository returns true iff the file is a
\* regular readable file whose bytes 0-3 are 'RIFF' and bytes 8-11 are 'WAVE'.
C18_VerifyIffRiffWave ==
    verdict.by # "none" =>
        (verdict.ok <=>
            /\ wav_file.kind = "file"
            /\ wav_file.readable
            /\ Len(wav_file.bytes) >= 3
            /\ wav_file.bytes[1] = "RIFF"
            /\ wav_file.bytes[3] = "WAVE")

\* The step is a statement of a playback worker thread.
PlayWorkerStep ==
    \E i \in 1..Len(plays) :
        /\ plays[i].pc \in {"start", "popen", "communicate", "finally"}
        /\ plays'[i].pc # plays[i].pc

\* The step is a statement of a stream worker thread.
StreamWorkerStep ==
    \E w \in 1..Len(streams) :
        /\ streams[w].pc \in {"terminate", "sweep", "popen", "assign"}
        /\ streams'[w].pc # streams[w].pc

\* C19: every step of a playback or stream worker leaves sound_playing and the
\* tracked stream handle unchanged; only handlers and callbacks write them.
C19_WorkersLeaveStateAlone ==
    [][(PlayWorkerStep \/ StreamWorkerStep)
       => UNCHANGED <<sound_playing, stream_process>>]_vars

\* No sound is playing, no aplay runs, and no callback or worker is pending.
PlaybackIdle ==
    /\ ~sound_playing
    /\ RunningAplay = {}
    /\ \A i \in 1..Len(plays) : plays[i].pc \in {"rejected", "dropped", "done"}

\* C20: under fair scheduling every playback worker terminates with its
\* process ended and sound_playing false, so the controller eventually is and
\* stays idle with no player process running.
C20_EventuallyIdle == <>[]PlaybackIdle

\* A worker whose aplay was killed at the timeout has finished, and the
\* controller is idle.
C20_Witness ==
    /\ PlaybackIdle
    /\ \E i \in 1..Len(plays) : plays[i].proc = "killed" /\ plays[i].pc = "done"
    /\ \E i \in 1..Len(plays) : plays[i].proc \in {"ok", "fail", "none"} /\ plays[i].pc = "done"

\* C21: the worker dispatched by a toggle spawns exactly the URL named in that
\* toggle's Started response, whatever later toggles did to
\* current_stream_index before the worker ran.
C21_WorkerSpawnsAnnouncedUrl ==
    \A w \in 1..Len(streams) :
        streams[w].spawned # "none" => streams[w].spawned = streams[w].announced

\* A worker spawned the URL of its own toggle after a later toggle had moved
\* current_stream_index to another stream.
C21_Witness ==
    \E w \in 1..Len(streams) :
        /\ streams[w].spawned = streams[w].announced
        /\ streams[w].index_at_spawn # None
        /\ stream_urls[streams[w].index_at_spawn + 1] # streams[w].announced

\* C22: every PLAY_SOUND that has been dealt with ended in exactly one of: an
\* error (unavailable, missing SOUND, not found), the busy response with no
\* spawn, or the 'playing' response with its one playback worker; none is
\* dropped without a response.
C22_ExactlyOneOutcome ==
    \A i \in 1..Len(plays) :
        plays[i].pc # "queued" =>
            \/ /\ plays[i].resp \in {"unavailable", "missing", "notfound"}
               /\ plays[i].pc = "rejected"
               /\ plays[i].proc = "none"
            \/ /\ plays[i].resp = "busy"
               /\ plays[i].pc = "rejected"
               /\ plays[i].proc = "none"
            \/ /\ plays[i].resp = "playing"
               /\ plays[i].pc \in {"start", "popen", "communicate", "finally", "done"}

====
